---------------------------- MODULE Spec2Model ----------------------------
(***************************************************************************)
(* A model of inspect_path: classification of a filesystem path by the     *)
(* mount that backs it.                                                    *)
(*                                                                         *)
(*   src/src/platform/unix.rs     mountinfo parser, resolver, classifier,  *)
(*                                statfs backend, status probe             *)
(*   src/src/platform/windows.rs  drive-type backend, universal name,      *)
(*                                status probe, mount helper               *)
(*   src/src/lib.rs               path_type, inspect, update_status        *)
(*                                                                         *)
(* Text is modelled as TLA+ strings and taken apart character by character *)
(* the way the Rust standard library does it (str::lines, split_once,      *)
(* split_whitespace, u32/u8 FromStr, Path::components, Path::starts_with). *)
(***************************************************************************)
EXTENDS Integers, Sequences, FiniteSets, TLC

VARIABLES
    host,           \* the build target: "unix" or "windows"
    target,         \* the path the caller asks about
    canonical,      \* what std::fs::canonicalize answers for that path, or None
    mountinfo,      \* contents of /proc/self/mountinfo, or Unreadable
    removable,      \* contents of the sysfs removable attribute, or Absent
    statfsType,     \* the f_type statfs(2) reports for path, or StatfsFails
    driveType,      \* the code GetDriveTypeW answers
    universalName,  \* the answers of WNetGetUniversalNameW
    call,           \* the last completed call: operation and argument
    ret,            \* what that call returned
    info,           \* the PathInfo the caller holds, or NoInfo
    history,        \* what the last call of each operation returned
    prev,           \* what the call before the last of the last operation returned
    resolved,       \* the record the last call resolved the path to, and its table
    mounts          \* the mount attempts the last call made

vars == <<host, target, canonical, mountinfo, removable,
          statfsType, driveType, universalName, call, ret, info, history,
          prev, resolved, mounts>>

\* what the system answers; no operation of the program writes it
system == <<host, target, canonical, mountinfo, removable, statfsType,
            driveType, universalName>>

-----------------------------------------------------------------------------
(* Result<T, E> and Option<T>                                              *)

Ok(v) == [ok |-> TRUE, val |-> v]
Err(e) == [ok |-> FALSE, err |-> e]
\* an error variant that carries a text: InvalidPath(String), General(String)
ErrWith(e, text) == [ok |-> FALSE, err |-> e, text |-> text]
IsErr(r, e) == ~r.ok /\ r.err = e

None == [some |-> FALSE]
Some(v) == [val |-> v, some |-> TRUE]

-----------------------------------------------------------------------------
(* Strings                                                                 *)

Ch(s, i) == SubSeq(s, i, i)

Digits == <<"0", "1", "2", "3", "4", "5", "6", "7", "8", "9">>

IsDigit(c) == \E d \in 1..10 : Digits[d] = c

DigitVal(c) == (CHOOSE d \in 1..10 : Digits[d] = c) - 1

\* char::is_whitespace, over the characters the model's texts use
IsWhitespace(c) == c \in {" ", "\t", "\n", "\r"}

StartsWithAt(s, pat, i) ==
    /\ i + Len(pat) - 1 <= Len(s)
    /\ SubSeq(s, i, i + Len(pat) - 1) = pat

\* str::starts_with
StartsWith(s, pat) == StartsWithAt(s, pat, 1)

RECURSIVE FindFrom(_, _, _)
\* index of the first occurrence of pat in s at or after i, 0 when none
FindFrom(s, pat, i) ==
    IF i + Len(pat) - 1 > Len(s) THEN 0
    ELSE IF StartsWithAt(s, pat, i) THEN i
    ELSE FindFrom(s, pat, i + 1)

\* str::contains
Contains(s, pat) == FindFrom(s, pat, 1) # 0

\* str::split_once: the text before and after the first occurrence of pat
split_once(s, pat) ==
    LET i == FindFrom(s, pat, 1)
    IN  IF i = 0 THEN None
        ELSE Some(<<SubSeq(s, 1, i - 1), SubSeq(s, i + Len(pat), Len(s))>>)

RECURSIVE TokenEnd(_, _)
\* index of the last character of the token that starts at i
TokenEnd(s, i) ==
    IF i < Len(s) /\ ~IsWhitespace(Ch(s, i + 1)) THEN TokenEnd(s, i + 1) ELSE i

RECURSIVE SplitWsFrom(_, _)
SplitWsFrom(s, i) ==
    IF i > Len(s) THEN <<>>
    ELSE IF IsWhitespace(Ch(s, i)) THEN SplitWsFrom(s, i + 1)
    ELSE LET e == TokenEnd(s, i)
         IN  <<SubSeq(s, i, e)>> \o SplitWsFrom(s, e + 1)

\* str::split_whitespace: the non-empty runs of non-whitespace, in order
split_whitespace(s) == SplitWsFrom(s, 1)

RECURSIVE LinesFrom(_, _)
LinesFrom(s, i) ==
    IF i > Len(s) THEN <<>>
    ELSE LET n == FindFrom(s, "\n", i)
             e == IF n = 0 THEN Len(s) ELSE n - 1
             \* a line ending "\r\n" loses both characters
             e2 == IF n # 0 /\ e >= i /\ Ch(s, e) = "\r" THEN e - 1 ELSE e
         IN  <<SubSeq(s, i, e2)>> \o
             (IF n = 0 THEN <<>> ELSE LinesFrom(s, n + 1))

\* str::lines: split at "\n"; a final line ending is not followed by an
\* empty line, and the empty text has no lines
lines(s) == LinesFrom(s, 1)

\* u32::MAX and u8::MAX in decimal. A parse compares against them digit by
\* digit: the model checker's own integers are narrower than u32.
U32MaxDigits == "4294967295"
U8MaxDigits == "255"

RECURSIVE DigitsLess(_, _, _)
\* a < b for two digit strings of one length, compared from position i
DigitsLess(a, b, i) ==
    IF i > Len(a) THEN FALSE
    ELSE IF DigitVal(Ch(a, i)) < DigitVal(Ch(b, i)) THEN TRUE
    ELSE IF DigitVal(Ch(a, i)) > DigitVal(Ch(b, i)) THEN FALSE
    ELSE DigitsLess(a, b, i + 1)

RECURSIVE StripZeros(_)
StripZeros(d) ==
    IF Len(d) > 1 /\ Ch(d, 1) = "0" THEN StripZeros(Tail(d)) ELSE d

\* whether the number a digit string writes is greater than max
Overflows(d, max) ==
    LET n == StripZeros(d)
    IN  \/ Len(n) > Len(max)
        \/ Len(n) = Len(max) /\ DigitsLess(max, n, 1)

RECURSIVE ScanDigits(_, _, _)
\* the loop of from_str_radix, most significant digit first: InvalidDigit at
\* a character that is no digit, PosOverflow (checked_mul, checked_add) as
\* soon as the digits read so far pass max
ScanDigits(d, i, max) ==
    IF i > Len(d) THEN "ok"
    ELSE IF ~IsDigit(Ch(d, i)) THEN "InvalidDigit"
    ELSE IF Overflows(SubSeq(d, 1, i), max) THEN "PosOverflow"
    ELSE ScanDigits(d, i + 1, max)

RECURSIVE DigitsValue(_, _, _)
DigitsValue(d, i, acc) ==
    IF i > Len(d) THEN acc
    ELSE DigitsValue(d, i + 1, acc * 10 + DigitVal(Ch(d, i)))

\* the value of the digits when the scan passed, else the scan's error
Scanned(d, scan) ==
    IF scan = "ok" THEN Ok(DigitsValue(d, 1, 0)) ELSE Err(scan)

\* <unsigned as FromStr>::from_str: an optional "+", then one or more
\* decimal digits whose value fits the type
parse_unsigned(s, max) ==
    IF s = "" THEN Err("Empty")
    ELSE IF s = "+" \/ s = "-" THEN Err("InvalidDigit")
    ELSE IF Ch(s, 1) = "+" THEN Scanned(Tail(s), ScanDigits(Tail(s), 1, max))
    ELSE Scanned(s, ScanDigits(s, 1, max))

-----------------------------------------------------------------------------
(* The mount table: struct MountInfo, struct DeviceNumber and the parser   *)

DeviceNumber(major, minor) == [major |-> major, minor |-> minor]

MountInfo(mount_id, parent_id, device_number, fs_root, mount_point, fs_type, block_device, mount_options) ==
    [mount_id |-> mount_id, parent_id |-> parent_id,
     device_number |-> device_number, fs_root |-> fs_root,
     mount_point |-> mount_point, fs_type |-> fs_type,
     block_device |-> block_device, mount_options |-> mount_options]

\* `?` on a Result<_, ParseIntError>: the error becomes ParseInt
AsParseInt(r) == IF r.ok THEN r ELSE Err("ParseInt")

\* str::parse::<u32>()?
parse_u32(s) == AsParseInt(parse_unsigned(s, U32MaxDigits))

\* ParseDevice as it would be if the third field were parsed as a number
\* whether or not it holds a ":"
ParseDeviceNumeric(vfs, post, dev) ==
    IF ~dev.some THEN Err("ParseInt")
    ELSE IF ~parse_u32(dev.val[1]).ok THEN Err("ParseInt")
    ELSE IF ~parse_u32(dev.val[2]).ok THEN Err("ParseInt")
    ELSE IF Len(vfs) < 5 THEN Err("ParseGen")
    ELSE IF Len(post) < 3 THEN Err("ParseGen")
    ELSE Ok(MountInfo(parse_u32(vfs[1]).val, parse_u32(vfs[2]).val,
                      DeviceNumber(parse_u32(dev.val[1]).val,
                                   parse_u32(dev.val[2]).val),
                      vfs[4], vfs[5], post[1], post[2], post[3]))

\* The fields from the device pair on, dev being the third left field split
\* at its first ":". A field the split has no more of is Iterator::next() =
\* None: ok_or(ParseGen)
ParseDevice(vfs, post, dev) ==
    IF ~dev.some THEN Err("ParseGen")
    ELSE IF ~parse_u32(dev.val[1]).ok THEN Err("ParseInt")
    ELSE IF ~parse_u32(dev.val[2]).ok THEN Err("ParseInt")
    ELSE IF Len(vfs) < 5 THEN Err("ParseGen")
    ELSE IF Len(post) < 3 THEN Err("ParseGen")
    ELSE Ok(MountInfo(parse_u32(vfs[1]).val, parse_u32(vfs[2]).val,
                      DeviceNumber(parse_u32(dev.val[1]).val,
                                   parse_u32(dev.val[2]).val),
                      vfs[4], vfs[5], post[1], post[2], post[3]))

\* The fields of the two halves, read in the order of the code: mount_id,
\* parent_id, major:minor, fs_root, mount_point, then fs_type, block_device,
\* mount_options
ParseFields(vfs, post) ==
    IF Len(vfs) < 1 THEN Err("ParseGen")
    ELSE IF ~parse_u32(vfs[1]).ok THEN Err("ParseInt")
    ELSE IF Len(vfs) < 2 THEN Err("ParseGen")
    ELSE IF ~parse_u32(vfs[2]).ok THEN Err("ParseInt")
    ELSE IF Len(vfs) < 3 THEN Err("ParseGen")
    ELSE ParseDevice(vfs, post, split_once(vfs[3], ":"))

ParseHalves(halves) ==
    IF ~halves.some THEN Err("ParseGen")
    ELSE ParseFields(split_whitespace(halves.val[1]),
                     split_whitespace(halves.val[2]))

\* The body of the loop of mountinfo_into_vec: one line to one record, or
\* the first error met
ParseLine(line) == ParseHalves(split_once(line, " - "))

RECURSIVE ParseLinesSkipping(_, _, _)
\* the loop as it would be if a line that fails were passed over
ParseLinesSkipping(ls, k, out) ==
    IF k > Len(ls) THEN Ok(out)
    ELSE IF ~ParseLine(ls[k]).ok THEN ParseLinesSkipping(ls, k + 1, out)
    ELSE ParseLinesSkipping(ls, k + 1, Append(out, ParseLine(ls[k]).val))

RECURSIVE ParseLines(_, _, _)
\* the loop over s.lines(): the records so far, until a line fails
ParseLines(ls, k, out) ==
    IF k > Len(ls) THEN Ok(out)
    ELSE IF ~ParseLine(ls[k]).ok THEN ParseLine(ls[k])
    ELSE ParseLines(ls, k + 1, Append(out, ParseLine(ls[k]).val))

mountinfo_into_vec(s) == ParseLines(lines(s), 1, <<>>)

-----------------------------------------------------------------------------
(* Paths: std::path::Path on a Unix host                                   *)

RECURSIVE SplitSlashFrom(_, _)
\* the pieces between "/" characters, empty pieces included
SplitSlashFrom(s, i) ==
    LET n == FindFrom(s, "/", i)
    IN  IF n = 0 THEN <<SubSeq(s, i, Len(s))>>
        ELSE <<SubSeq(s, i, n - 1)>> \o SplitSlashFrom(s, n + 1)

RECURSIVE NormalPieces(_, _)
\* the components after the first: an empty piece (a repeated or trailing
\* separator) and "." are skipped, ".." and names are kept
NormalPieces(ps, k) ==
    IF k > Len(ps) THEN <<>>
    ELSE IF ps[k] = "" \/ ps[k] = "." THEN NormalPieces(ps, k + 1)
    ELSE <<ps[k]>> \o NormalPieces(ps, k + 1)

\* the components of a non-empty path whose pieces are ps
Pieces(p, ps) ==
    IF Ch(p, 1) = "/" THEN <<"/">> \o NormalPieces(ps, 1)
    ELSE IF ps[1] = "." THEN <<".">> \o NormalPieces(ps, 2)
    ELSE NormalPieces(ps, 1)

\* Path::components: "/" stands for RootDir, "." for CurDir (only as the
\* first component of a relative path), ".." for ParentDir, a name for Normal
components(p) == IF p = "" THEN <<>> ELSE Pieces(p, SplitSlashFrom(p, 1))

IsPrefix(bc, pc) ==
    /\ Len(bc) <= Len(pc)
    /\ \A k \in 1..Len(bc) : pc[k] = bc[k]

\* starts_with as it would be on the text of the paths (str::starts_with)
starts_with_text(p, base) == StartsWith(p, base)

\* Path::starts_with: base's components are a prefix of p's, whole
\* components compared
starts_with(p, base) == IsPrefix(components(base), components(p))

-----------------------------------------------------------------------------
(* PathType, RemoteType, PathStatus, PathInfo                              *)

PathType(tag) == [tag |-> tag, name |-> ""]
Virtual(fs_type) == [tag |-> "Virtual", name |-> fs_type]
Remote == PathType("Remote")

RemoteType(tag) == [tag |-> tag, desc |-> ""]
Other(desc) == [tag |-> "Other", desc |-> desc]

PathStatus(tag) == [tag |-> tag, desc |-> ""]
StatusOther(desc) == [tag |-> "Other", desc |-> desc]

PathInfo(path, kind, remote_kind, status) ==
    [path |-> path, kind |-> kind, remote_kind |-> remote_kind,
     status |-> status]

-----------------------------------------------------------------------------
(* The filesystem-type tables of unix.rs                                   *)

NFS == {"nfs", "nfs4"}
SMB == {"cifs", "smbfs", "smb3"}
SSH == {"sshfs", "fuse.sshfs"}
CLUSTER == {"ceph", "fuse.ceph", "glusterfs", "fuse.glusterfs"}
PROTOCOL == {"9p", "afp", "davfs", "fuse.davfs"}
\* const OTHER (a reserved word here)
OTHER_FS == {"ncpfs", "coda", "ocfs2", "gfs", "gfs2"}
REMOTE_FS_TYPES == <<NFS, SMB, SSH, CLUSTER, PROTOCOL, OTHER_FS>>
LOCAL_BLOCK_FS_TYPES ==
    {"ext2", "ext3", "ext4", "xfs", "btrfs", "f2fs", "jfs", "reiserfs",
     "reiser4", "bcachefs", "vfat", "msdos", "exfat", "ntfs", "ntfs3", "zfs"}
CDROM_FS_TYPES == {"iso9660", "udf"}

-----------------------------------------------------------------------------
(* The resolver and the classifier of the mountinfo backend                *)

Absent == [present |-> FALSE]
Present(content) == [present |-> TRUE, content |-> content]

\* fs::read_to_string(removable_path).unwrap_or_else(|_| "0").parse::<u8>():
\* what the attribute reads as, a failed read counting as "0"
ReadRemovable(attr) ==
    AsParseInt(parse_unsigned(IF attr.present THEN attr.content ELSE "0",
                              U8MaxDigits))

\* KindOf as it would be if the "fuse" prefix were tested ahead of the
\* remote tables
KindOfFuseFirst(best, rem) ==
    IF ~rem.ok THEN rem
    ELSE IF best.device_number.major = 0 THEN Ok(Virtual(best.fs_type))
    ELSE IF rem.val = 1 THEN Ok(PathType("Removable"))
    ELSE IF best.fs_type \in CDROM_FS_TYPES THEN Ok(PathType("CDRom"))
    ELSE IF StartsWith(best.fs_type, "fuse") THEN Ok(PathType("Unknown"))
    ELSE IF \E k \in 1..Len(REMOTE_FS_TYPES) :
                best.fs_type \in REMOTE_FS_TYPES[k] THEN Ok(Remote)
    ELSE IF best.fs_type \in LOCAL_BLOCK_FS_TYPES THEN Ok(PathType("Fixed"))
    ELSE Ok(PathType("Unknown"))

\* the chain of tests of get_kind, rem being the attribute as read
KindOf(best, rem) ==
    IF ~rem.ok THEN rem
    ELSE IF best.device_number.major = 0 THEN Ok(Virtual(best.fs_type))
    ELSE IF rem.val = 1 THEN Ok(PathType("Removable"))
    ELSE IF best.fs_type \in CDROM_FS_TYPES THEN Ok(PathType("CDRom"))
    ELSE IF \E k \in 1..Len(REMOTE_FS_TYPES) :
                best.fs_type \in REMOTE_FS_TYPES[k] THEN Ok(Remote)
    ELSE IF StartsWith(best.fs_type, "fuse") THEN Ok(PathType("Unknown"))
    ELSE IF best.fs_type \in LOCAL_BLOCK_FS_TYPES THEN Ok(PathType("Fixed"))
    ELSE Ok(PathType("Unknown"))

\* the attribute is read and parsed before any test is made
get_kind(best, attr) == KindOf(best, ReadRemovable(attr))

\* get_remote_kind as it would be if the NFS table held "nfs" alone
get_remote_kind_nfs_only(best) ==
    LET fs_type == best.fs_type
    IN  IF fs_type = "nfs" THEN Ok(Some(RemoteType("NFS")))
        ELSE IF fs_type \in SMB THEN Ok(Some(RemoteType("SMB")))
        ELSE IF fs_type \in SSH THEN Ok(Some(Other("SSH")))
        ELSE IF fs_type \in CLUSTER THEN Ok(Some(Other("Cluster / distributed")))
        ELSE IF fs_type \in PROTOCOL THEN Ok(Some(Other("Network / protocol FS")))
        ELSE IF fs_type \in OTHER_FS THEN Ok(Some(Other("Other")))
        ELSE Ok(Some(RemoteType("Unknown")))

get_remote_kind(best) ==
    LET fs_type == best.fs_type
    IN  IF fs_type \in NFS THEN Ok(Some(RemoteType("NFS")))
        ELSE IF fs_type \in SMB THEN Ok(Some(RemoteType("SMB")))
        ELSE IF fs_type \in SSH THEN Ok(Some(Other("SSH")))
        ELSE IF fs_type \in CLUSTER THEN Ok(Some(Other("Cluster / distributed")))
        ELSE IF fs_type \in PROTOCOL THEN Ok(Some(Other("Network / protocol FS")))
        ELSE IF fs_type \in OTHER_FS THEN Ok(Some(Other("Other")))
        ELSE Ok(Some(RemoteType("Unknown")))

\* miv.iter().filter(|m| path.starts_with(&m.mount_point)): the indices of
\* the candidates, in table order
Candidates(path, miv) ==
    {k \in 1..Len(miv) : starts_with(path, miv[k].mount_point)}

\* the key of max_by_key: m.mount_point.components().count()
Key(miv, k) == Len(components(miv[k].mount_point))

\* MaxByKey as it would be if the first of the greatest were kept
MaxByKeyFirst(miv, c) ==
    IF c = {} THEN 0
    ELSE CHOOSE k \in c :
             \A j \in c : \/ Key(miv, j) < Key(miv, k)
                          \/ Key(miv, j) = Key(miv, k) /\ j >= k

\* Iterator::max_by_key over the candidates c in table order: the last of
\* those with the greatest key; 0 when there is no candidate
MaxByKey(miv, c) ==
    IF c = {} THEN 0
    ELSE CHOOSE k \in c :
             \A j \in c : \/ Key(miv, j) < Key(miv, k)
                          \/ Key(miv, j) = Key(miv, k) /\ j <= k

Unreadable == [readable |-> FALSE]
Readable(text) == [text |-> text, readable |-> TRUE]

\* read_to_string(MOUNTINFO_PATH)?
mountinfo_to_string(file) ==
    IF file.readable THEN Ok(file.text) ELSE Err("Io")

\* the PathInfo returned, or the error of get_remote_kind
WithRemoteKind(path, kind, remote_kind) ==
    IF ~remote_kind.ok THEN remote_kind
    ELSE Ok(PathInfo(path, kind, remote_kind.val, PathStatus("Unknown")))

\* WithKind as it would be if remote_kind were asked for whatever the kind
WithKindAlways(path, best, kind) ==
    IF ~kind.ok THEN kind
    ELSE WithRemoteKind(path, kind.val, get_remote_kind(best))

\* remote_kind is asked for when and only when kind is Remote
WithKind(path, best, kind) ==
    IF ~kind.ok THEN kind
    ELSE WithRemoteKind(path, kind.val,
                        IF kind.val # Remote THEN Ok(None)
                        ELSE get_remote_kind(best))

\* kind and remote_kind of the record chosen, and the PathInfo built
Classify(path, best, attr) == WithKind(path, best, get_kind(best, attr))

\* the record chosen, its place in the table, and the table
Best(miv, k) == Some([best |-> miv[k], miv |-> miv, index |-> k])

\* best = candidates.max_by_key(..).ok_or(ParseGen)?, then its class
OnBest(path, miv, k, attr) ==
    IF k = 0 THEN [ret |-> Err("ParseGen"), best |-> None]
    ELSE [ret |-> Classify(path, miv[k], attr), best |-> Best(miv, k)]

OnTable(path, miv, attr) ==
    IF ~miv.ok THEN [ret |-> miv, best |-> None]
    ELSE OnBest(path, miv.val, MaxByKey(miv.val, Candidates(path, miv.val)),
                attr)

\* inspect_path_new with the record it resolved the path to: the table is
\* read and parsed, the deepest candidate taken and classified
Resolve(path, file, attr) ==
    IF ~mountinfo_to_string(file).ok THEN [ret |-> Err("Io"), best |-> None]
    ELSE OnTable(path, mountinfo_into_vec(mountinfo_to_string(file).val), attr)

inspect_path_new(path, file, attr) == Resolve(path, file, attr).ret

-----------------------------------------------------------------------------
(* The statfs backend of unix.rs. An f_type is written as its decimal      *)
(* digits: the magic numbers are i64 and only ever compared for equality.  *)

FS_NFS == "26985"
FS_SMB == "20859"
FS_CIFS == "-187242602"
FS_AFS == "1397113167"
FS_FUSE == "1702057286"
FS_EXT4 == "61267"
FS_BTRFS == "2435016766"
FS_TMPFS == "16914836"
FS_ROM == "38496"
FS_XFS == "1481003842"
FS_NTFS == "1397118030"
FS_FAT == "16390"
FS_EXFAT == "538032816"

StatfsFails(errno) == [ok |-> FALSE, errno |-> errno]
StatfsType(f_type) == [ok |-> TRUE, f_type |-> f_type]

\* the match on statfs.filesystem_type().0
StatfsKind(t) ==
    IF t \in {FS_EXT4, FS_XFS, FS_BTRFS, FS_FAT, FS_EXFAT}
        THEN <<PathType("Fixed"), None>>
    ELSE IF t = FS_NTFS THEN <<PathType("Fixed"), None>>
    ELSE IF t = FS_NFS THEN <<Remote, Some(RemoteType("NFS"))>>
    ELSE IF t \in {FS_CIFS, FS_SMB} THEN <<Remote, Some(RemoteType("SMB"))>>
    ELSE IF t = FS_AFS THEN <<Remote, Some(RemoteType("AFS"))>>
    ELSE IF t = FS_FUSE THEN <<Remote, Some(RemoteType("Unknown"))>>
    ELSE IF t = FS_TMPFS THEN <<PathType("RamDisk"), None>>
    ELSE IF t = FS_ROM THEN <<PathType("CDRom"), None>>
    ELSE <<PathType("Unknown"), None>>

\* inspect_path as it would be if it answered from the PathInfo handed out
\* last whenever there is one
unix_inspect_path_cached(path, st) ==
    IF info.held /\ info.struct = "platform" THEN Ok(info.val)
    ELSE IF ~st.ok THEN ErrWith("General", st.errno)
    ELSE Ok(PathInfo(path, StatfsKind(st.f_type)[1], StatfsKind(st.f_type)[2],
                     PathStatus("Unknown")))

unix_inspect_path(path, st) ==
    IF ~st.ok THEN ErrWith("General", st.errno)
    ELSE LET k == StatfsKind(st.f_type)
         IN  Ok(PathInfo(path, k[1], k[2], PathStatus("Unknown")))

\* check_status of Unix as it would be if it told the kinds of error apart
unix_check_status_by_kind(md) ==
    IF md = "Ok" THEN PathStatus("Mounted")
    ELSE IF md \in {"NotFound", "TimedOut", "NetworkDown", "NotConnected"}
        THEN PathStatus("Disconnected")
    ELSE IF md = "PermissionDenied" THEN PathStatus("Mounted")
    ELSE PathStatus("Unknown")

\* std::fs::metadata: "Ok", or the io::ErrorKind of the failure
unix_check_status(md) ==
    IF md = "Ok" THEN PathStatus("Mounted") ELSE PathStatus("Unknown")

-----------------------------------------------------------------------------
(* windows.rs                                                              *)

\* path.to_string_lossy().chars().take(2)
return_first_two(path) ==
    SubSeq(path, 1, IF Len(path) < 2 THEN Len(path) ELSE 2)

\* The answers of WNetGetUniversalNameW: the result of the sizing call, the
\* result of the call that fills the buffer, and the name in the buffer
\* (None when it is not valid UTF-16)
WNet(first, second, name) == [name |-> name, first |-> first, second |-> second]

get_universal_name(wn) ==
    IF wn.first # "ERROR_MORE_DATA" THEN None
    ELSE IF wn.second # "NO_ERROR" THEN None
    ELSE wn.name

get_remote_type(base_path) ==
    IF ~base_path.some THEN None
    ELSE LET bp == base_path.val
             unc == Contains(bp, "\\\\")
             at == Contains(bp, "@")
             dav == Contains(bp, "DavWWWRoot")
         IN  IF unc /\ ~dav THEN Some(RemoteType("SMB"))
             ELSE IF unc /\ dav THEN Some(RemoteType("WebDAV"))
             ELSE Some(RemoteType("Unknown"))

\* DriveKind as it would be if DRIVE_NO_ROOT_DIR shared the arm of
\* DRIVE_UNKNOWN
DriveKindNoRoot(path, code) ==
    IF code = 0 \/ code = 1 THEN Err("PathTypeError")
    ELSE IF code = 2 THEN Ok(PathType("Removable"))
    ELSE IF code = 3 THEN Ok(PathType("Fixed"))
    ELSE IF code = 4 THEN Ok(Remote)
    ELSE IF code = 5 THEN Ok(PathType("CDRom"))
    ELSE IF code = 6 THEN Ok(PathType("RamDisk"))
    ELSE ErrWith("General", ToString(code))

\* the match on the drive-type code; PathTypeError for DRIVE_UNKNOWN
DriveKind(path, code) ==
    IF code = 0 THEN Err("PathTypeError")
    ELSE IF code = 1 THEN ErrWith("InvalidPath", path)
    ELSE IF code = 2 THEN Ok(PathType("Removable"))
    ELSE IF code = 3 THEN Ok(PathType("Fixed"))
    ELSE IF code = 4 THEN Ok(Remote)
    ELSE IF code = 5 THEN Ok(PathType("CDRom"))
    ELSE IF code = 6 THEN Ok(PathType("RamDisk"))
    ELSE ErrWith("General", ToString(code))

windows_inspect_path(path, wn, code) ==
    LET base_path == get_universal_name(wn)
        kind == DriveKind(path, code)
    IN  IF ~kind.ok THEN kind
        ELSE LET remote_kind == IF kind.val = Remote
                                THEN get_remote_type(base_path) ELSE None
             IN  Ok(PathInfo(path, kind.val, remote_kind, PathStatus("Unknown")))

windows_check_status(md) ==
    IF md = "Ok" THEN PathStatus("Mounted")
    ELSE IF md \in {"NotFound", "TimedOut", "NetworkDown", "NotConnected"}
        THEN PathStatus("Disconnected")
    ELSE IF md = "PermissionDenied" THEN PathStatus("Mounted")
    ELSE PathStatus("Unknown")

\* WNetAddConnection2W: NO_ERROR (0) or a Win32 error code
mount_path(local, remote, result) ==
    IF result = 0 THEN Ok(<<>>)
    ELSE ErrWith("General", "Win32 error: " \o ToString(result))

NotUnicode == [unicode |-> FALSE]
Unicode(text) == [text |-> text, unicode |-> TRUE]

\* MountAttempts as it would be if every failure of inspect_path led to a
\* mount
MountAttemptsOnAnyError(path, remote, wn, code) ==
    LET r == windows_inspect_path(path, wn, code)
    IN  IF ~r.ok /\ remote.unicode
        THEN <<(<<return_first_two(path), remote.text>>)>>
        ELSE <<>>

\* The mount attempts of try_mount_if_needed: one, with the first two
\* characters of path, when inspect_path fails with InvalidPath and remote
\* converts to a string
MountAttempts(path, remote, wn, code) ==
    LET r == windows_inspect_path(path, wn, code)
    IN  IF IsErr(r, "InvalidPath") /\ remote.unicode
        THEN <<(<<return_first_two(path), remote.text>>)>>
        ELSE <<>>

try_mount_if_needed(path, remote, wn, code, result) ==
    LET r == windows_inspect_path(path, wn, code)
    IN  IF r.ok THEN Ok(<<>>)
        ELSE IF r.err # "InvalidPath" THEN r
        ELSE IF ~remote.unicode THEN ErrWith("General", "Conversion Error")
        ELSE mount_path(return_first_two(path), remote.text, result)

-----------------------------------------------------------------------------
(* lib.rs: the first drive-letter backend and the in-place status probe    *)

\* the match of inspect as it would be if its last arm answered Unknown
LibDriveKindSilent(path, code) ==
    IF code = 0 THEN Err("PathTypeError")
    ELSE IF code = 1 THEN ErrWith("InvalidPath", path)
    ELSE IF code = 2 THEN Ok(PathType("Removable"))
    ELSE IF code = 3 THEN Ok(PathType("Fixed"))
    ELSE IF code = 4 THEN Ok(Remote)
    ELSE IF code = 5 THEN Ok(PathType("CDRom"))
    ELSE IF code = 6 THEN Ok(PathType("RamDisk"))
    ELSE Ok(PathType("Unknown"))

\* the match of inspect on the drive-type code
LibDriveKind(path, code) ==
    IF code = 0 THEN Err("PathTypeError")
    ELSE IF code = 1 THEN ErrWith("InvalidPath", path)
    ELSE IF code = 2 THEN Ok(PathType("Removable"))
    ELSE IF code = 3 THEN Ok(PathType("Fixed"))
    ELSE IF code = 4 THEN Ok(Remote)
    ELSE IF code = 5 THEN Ok(PathType("CDRom"))
    ELSE IF code = 6 THEN Ok(PathType("RamDisk"))
    ELSE ErrWith("General", ToString(code))

lib_inspect(path, code) ==
    LET kind == LibDriveKind(path, code)
    IN  IF ~kind.ok THEN kind
        ELSE Ok(PathInfo(Some(path), kind.val,
                         IF code = 4 THEN RemoteType("Unknown")
                         ELSE RemoteType("NonRemote"),
                         PathStatus("Unknown")))

path_type(path, code) ==
    IF code = 0 THEN Ok(PathType("Unknown"))
    ELSE IF code = 1 THEN ErrWith("InvalidPath", path)
    ELSE IF code = 2 THEN Ok(PathType("Removable"))
    ELSE IF code = 3 THEN Ok(PathType("Fixed"))
    ELSE IF code = 4 THEN Ok(Remote)
    ELSE IF code = 5 THEN Ok(PathType("CDRom"))
    ELSE IF code = 6 THEN Ok(PathType("RamDisk"))
    ELSE Err("PathTypeError")

\* impl Default for PathInfo
default ==
    PathInfo(None, PathType("Unknown"), RemoteType("Unknown"),
             PathStatus("Unknown"))

\* the status update_status stores for an outcome of std::fs::metadata
UpdatedStatus(md) ==
    IF md = "Ok" THEN PathStatus("Mounted")
    ELSE IF md \in {"TimedOut", "NotFound", "NetworkDown", "NotConnected"}
        THEN PathStatus("Disconnected")
    ELSE IF md = "PermissionDenied" THEN PathStatus("Mounted")
    ELSE StatusOther(md)

\* update_status as it would be if it rebuilt the PathInfo from the default
update_status_rebuilt(self, md) ==
    IF self.path.some
    THEN [default EXCEPT !.path = self.path, !.status = UpdatedStatus(md)]
    ELSE self

\* PathInfo::update_status: self.status alone is assigned, and only when
\* self.path is Some
update_status(self, md) ==
    IF self.path.some THEN [self EXCEPT !.status = UpdatedStatus(md)]
    ELSE self

\* PathInfo::check_status of the platform backends' PathInfo: the status
\* becomes what the platform's check_status answers for self.path
check_status(self, os, md) ==
    [self EXCEPT !.status = IF os = "windows" THEN windows_check_status(md)
                            ELSE unix_check_status(md)]

-----------------------------------------------------------------------------
(* Bounds and the inputs the model draws                                   *)

MaxLines == 2
MaxDriveCode == 8

JoinLines(ls) ==
    LET F[k \in 0..Len(ls)] == IF k = 0 THEN "" ELSE F[k - 1] \o ls[k] \o "\n"
    IN  F[Len(ls)]

\* a mount table of nested, stacked and sibling mounts, and a malformed line
LinePool ==
    {"1 0 8:1 / / rw - ext4 /dev/sda1 rw",
     "2 1 0:5 / /media rw - nfs4 srv:/x rw",
     "3 2 8:16 / /media/usb rw shared:7 - vfat /dev/sdb1 rw",
     "4 1 9:0 / /media/ rw - cifs //s/x rw",
     "5 1 11:0 / /mediaX rw - iso9660 /dev/sr0 ro",
     "6 1 /bad rw - proc proc rw"}

\* the lines of a table are distinct
Tables ==
    {JoinLines(ls) :
        ls \in {t \in UNION {[1..n -> LinePool] : n \in 0..MaxLines} :
                   \A j, k \in 1..Len(t) : t[j] = t[k] => j = k}}

Files == {Readable(t) : t \in Tables} \cup {Unreadable}

\* the lines of LinePool, a blank line and a line without the " - " separator
ParserPool == LinePool \cup {"", "7 1 0:9 / /x rw"}

ParserSeqs == UNION {[1..n -> ParserPool] : n \in 0..MaxLines}

\* the text of each sequence of lines of ParserPool
ParserTexts == [ls \in ParserSeqs |-> JoinLines(ls)]

UnixPaths ==
    {"/", "/media", "/media/usb/f", "/mediaX/f", "/media//usb/./f/", "rel/f"}

\* what canonicalization answers for a path: nothing when the path does not
\* exist, the path itself, or the place a symbolic link leads to
Canonicals(path) ==
    IF path = "/media/usb/f"
    THEN {None, Some("/media/usb/f"), Some("/mediaX/f")}
    ELSE {None}

FsTypes ==
    NFS \cup SMB \cup SSH \cup CLUSTER \cup PROTOCOL \cup OTHER_FS
    \cup LOCAL_BLOCK_FS_TYPES \cup CDROM_FS_TYPES
    \cup {"mqueue", "proc", "tmpfs", "fuse", "fuseblk", "fuse.foo", "nfs3", "ext"}

\* a decimal field as written, with the number it writes
Numbers == {<<"40", 40>>, <<"28", 28>>, <<"+7", 7>>, <<"007", 7>>, <<"0", 0>>}

\* the fields a well-formed line is written from: every filesystem type on
\* a virtual and on a real device, and every way of writing the other fields
TypeFields ==
    [id : {<<"40", 40>>}, parent : {<<"28", 28>>},
     major : {<<"0", 0>>, <<"8", 8>>}, minor : {<<"20", 20>>},
     root : {"/"}, mp : {"/dev/mqueue"},
     tags : {" rw,nosuid,nodev,noexec,relatime shared:15"},
     fs : FsTypes, dev : {"mqueue"}, opts : {"rw"}, more : {""}]

LayoutFields ==
    [id : Numbers, parent : {<<"28", 28>>},
     major : {<<"0", 0>>, <<"259", 259>>}, minor : {<<"20", 20>>, <<"007", 7>>},
     root : {"/", "/sub"}, mp : {"/dev/mqueue", "/"},
     tags : {"", " rw", " rw,nosuid,nodev,noexec,relatime shared:15"},
     fs : {"mqueue"}, dev : {"mqueue", "/dev/sda1"}, opts : {"rw"},
     more : {"", " seclabel"}]

LineFields == TypeFields \cup LayoutFields

LineOf(f) ==
    f.id[1] \o " " \o f.parent[1] \o " " \o f.major[1] \o ":" \o f.minor[1]
    \o " " \o f.root \o " " \o f.mp \o f.tags \o " - "
    \o f.fs \o " " \o f.dev \o " " \o f.opts \o f.more

\* texts with a line that is not well formed
MalformedTexts ==
    {"40 28 /dev/mqueue rw - mqueue mqueue rw",
     "40 28 0:20 / /dev/mqueue rw -mqueue mqueue rw",
     "40 28 0:20 / /dev/mqueue rw - mqueue mqueue",
     "40 28 0:20 / - mqueue mqueue rw",
     "40 28 0:x / /dev/mqueue rw - mqueue mqueue rw",
     "40 28 0:4294967296 / /dev/mqueue rw - mqueue mqueue rw",
     "-40 28 0:20 / /dev/mqueue rw - mqueue mqueue rw",
     "40 0x1c 0:20 / /dev/mqueue rw - mqueue mqueue rw",
     "40 28 : / /dev/mqueue rw - mqueue mqueue rw",
     "x", "\n", " - mqueue mqueue rw",
     "40 28 0:20 / /dev/mqueue rw - mqueue mqueue rw\n\n41 28 0:21 / /proc rw - proc proc rw\n"}

Attrs == {Absent, Present("0"), Present("1"), Present("0\n")}

AllAttrs ==
    Attrs \cup {Present("2"), Present("+1"), Present("01"), Present("256"),
                Present("x"), Present(""), Present("-1")}

StatfsAnswers ==
    {StatfsType(t) : t \in {FS_NFS, FS_SMB, FS_CIFS, FS_AFS, FS_FUSE, FS_EXT4,
                            FS_BTRFS, FS_TMPFS, FS_ROM, FS_XFS, FS_NTFS,
                            FS_FAT, FS_EXFAT, "0", "40864"}}
    \cup {StatfsFails("ENOENT")}

WinPaths == {"Q:\\", "Z:\\partcount.csv", "\\\\server\\share\\", "C"}

UniversalNames ==
    {WNet("ERROR_MORE_DATA", "NO_ERROR", Some(n)) :
        n \in {"\\\\server\\share", "\\\\server@SSL\\DavWWWRoot\\docs",
               "\\\\server@8080\\share", "\\\\server\\DavWWWRoot",
               "Z:\\a\\\\DavWWWRoot", "Z:\\a\\\\b", "Z:\\DavWWWRoot",
               "Z:\\a@b", ""}}
    \cup {WNet("ERROR_NOT_CONNECTED", "ERROR_NOT_CONNECTED", None),
          WNet("NO_ERROR", "NO_ERROR", Some("\\\\server\\share")),
          WNet("ERROR_MORE_DATA", "ERROR_BAD_DEVICE", Some("\\\\server\\share")),
          WNet("ERROR_MORE_DATA", "NO_ERROR", None)}

DriveCodes == 0..MaxDriveCode

Metadata ==
    {"Ok", "NotFound", "TimedOut", "NetworkDown", "NotConnected",
     "PermissionDenied", "InvalidInput"}

Remotes == {Unicode("\\\\server\\share"), NotUnicode}

\* NO_ERROR, ERROR_ALREADY_ASSIGNED
MountResults == {0, 85}

-----------------------------------------------------------------------------
(* The state machine                                                       *)

NoInfo == [held |-> FALSE]
NoWNet == WNet("ERROR_NOT_SUPPORTED", "ERROR_NOT_SUPPORTED", None)

\* the calls whose repetition the model follows
Repeatable ==
    {"mountinfo_into_vec", "inspect_path_new", "unix::inspect_path",
     "windows::inspect_path", "inspect", "path_type"}

Start ==
    /\ call = [op |-> "start"]
    /\ ret = Ok(<<>>)
    /\ info = NoInfo
    /\ history = [op \in Repeatable |-> None]
    /\ prev = None
    /\ resolved = None
    /\ mounts = <<>>

\* a Unix host whose mount table is one of Tables
InitMountinfo ==
    /\ host = "unix"
    /\ target \in UnixPaths
    /\ canonical \in Canonicals(target)
    /\ mountinfo \in Files
    /\ removable \in Attrs
    /\ statfsType = StatfsType(FS_EXT4)
    /\ driveType = 0
    /\ universalName = NoWNet

\* a Unix host whose mount table is one line, well formed or not, or some
\* lines of ParserPool
InitParser ==
    /\ host = "unix"
    /\ target = "/dev/mqueue"
    /\ canonical = None
    /\ \/ /\ mountinfo \in {Readable(LineOf(f)) : f \in TypeFields}
          /\ removable \in AllAttrs
       \/ /\ mountinfo \in {Readable(LineOf(f)) : f \in LayoutFields}
                           \cup {Readable(t) : t \in MalformedTexts}
          /\ removable \in {Absent, Present("0\n")}
       \/ /\ mountinfo \in {Readable(ParserTexts[ls]) : ls \in ParserSeqs}
          /\ removable = Absent
    /\ statfsType = StatfsType(FS_TMPFS)
    /\ driveType = 0
    /\ universalName = NoWNet

InitStatfs ==
    /\ host = "unix"
    /\ target \in {"/", "/media"}
    /\ canonical = None
    /\ mountinfo = Readable("")
    /\ removable = Absent
    /\ statfsType \in StatfsAnswers
    /\ driveType = 0
    /\ universalName = NoWNet

InitWindows ==
    /\ host = "windows"
    /\ target \in WinPaths
    /\ canonical = None
    /\ mountinfo = Unreadable
    /\ removable = Absent
    /\ statfsType = StatfsFails("ENOSYS")
    /\ driveType \in DriveCodes
    /\ universalName \in UniversalNames

Init == Start /\ (InitMountinfo \/ InitStatfs \/ InitWindows)

\* A call of operation op with argument arg that returns r, leaves the
\* caller holding PathInfo i, attempts the mounts m and resolves the path to
\* the record b
Completes(op, arg, r, i, m, b) ==
    /\ call' = [op |-> op, arg |-> arg]
    /\ ret' = r
    /\ info' = i
    /\ history' = IF op \in Repeatable THEN [history EXCEPT ![op] = Some(r)]
                  ELSE history
    /\ prev' = IF op \in Repeatable THEN history[op] ELSE None
    /\ resolved' = b
    /\ mounts' = m
    /\ UNCHANGED system

Returns(op, arg, r, i, m) == Completes(op, arg, r, i, m, None)

\* The caller holds the PathInfo a successful call returned, a PathInfo of
\* lib.rs ("lib") or of a platform backend ("platform"), and nothing after a
\* call that failed
Keeps(struct, r) ==
    IF r.ok THEN [val |-> r.val, held |-> TRUE, struct |-> struct] ELSE NoInfo

ParseTable ==
    /\ host = "unix"
    /\ mountinfo.readable
    /\ Returns("mountinfo_into_vec", mountinfo.text,
               mountinfo_into_vec(mountinfo.text), info, <<>>)

\* kind and remote kind of one record of the table parsed last
ClassifyRecord ==
    /\ host = "unix"
    /\ call.op = "mountinfo_into_vec"
    /\ ret.ok
    /\ \E k \in 1..Len(ret.val) :
          LET r == Classify(target, ret.val[k], removable)
          IN  Returns("classify", ret.val[k], r, Keeps("platform", r), <<>>)

\* a call that returns r.ret after resolving the path to r.best
Resolves(op, arg, r) ==
    Completes(op, arg, r.ret, Keeps("platform", r.ret), <<>>, r.best)

\* inspect_path_new is a function of the path and of what the system
\* answers: its value on each system InitMountinfo and InitStatfs draw
Answers ==
    [p \in UnixPaths, f \in Files, a \in Attrs |-> Resolve(p, f, a)]

InspectNew ==
    /\ host = "unix"
    /\ Resolves("inspect_path_new", target,
                Answers[target, mountinfo, removable])

InspectStatfs ==
    /\ host = "unix"
    /\ LET r == unix_inspect_path(target, statfsType)
       IN  Returns("unix::inspect_path", target, r, Keeps("platform", r), <<>>)

InspectWindows ==
    /\ host = "windows"
    /\ LET r == windows_inspect_path(target, universalName, driveType)
       IN  Returns("windows::inspect_path", target, r, Keeps("platform", r), <<>>)

LibInspect ==
    /\ host = "windows"
    /\ LET r == lib_inspect(target, driveType)
       IN  Returns("inspect", target, r, Keeps("lib", r), <<>>)

PathTypeCall ==
    /\ host = "windows"
    /\ Returns("path_type", target, path_type(target, driveType), info, <<>>)

\* the platform's check_status(target): a status is returned, nothing is kept
CheckStatus ==
    \E md \in Metadata :
        Returns("check_status", md,
                IF host = "windows" THEN windows_check_status(md)
                ELSE unix_check_status(md),
                info, <<>>)

\* PathInfo::default() of lib.rs
DefaultInfo ==
    LET r == Ok(default)
    IN  Returns("PathInfo::default", <<>>, r, Keeps("lib", r), <<>>)

\* info.update_status() on a PathInfo of lib.rs, info.check_status() on one
\* of a platform backend: the PathInfo held is updated in place
Probe ==
    /\ info.held
    /\ \E md \in Metadata :
          Returns("probe", md, Ok(<<>>),
                  [info EXCEPT !.val = IF info.struct = "lib"
                                       THEN update_status(info.val, md)
                                       ELSE check_status(info.val, host, md)],
                  <<>>)

TryMount ==
    /\ host = "windows"
    /\ \E remote \in Remotes, result \in MountResults :
          Returns("try_mount_if_needed", <<remote, result>>,
                  try_mount_if_needed(target, remote, universalName, driveType,
                                      result),
                  info,
                  MountAttempts(target, remote, universalName, driveType))

Next ==
    \/ InspectNew
    \/ InspectStatfs
    \/ InspectWindows
    \/ LibInspect
    \/ PathTypeCall
    \/ DefaultInfo
    \/ Probe

\* the backends and the in-place probe, on a Unix and on a Windows host
Spec == Init /\ [][Next]_vars

NextParse == ParseTable \/ ClassifyRecord

InitParse == Start /\ InitParser

\* the parser and the classifier on one mount-table line
SpecParse == InitParse /\ [][NextParse]_vars

NextProbe == CheckStatus \/ TryMount \/ LibInspect \/ Probe

InitProbe == Start /\ (InitStatfs \/ InitWindows)

\* the status probes (the platform's check_status, update_status of lib.rs
\* on the PathInfo inspect returned) and the mount helper
SpecProbe == InitProbe /\ [][NextProbe]_vars

-----------------------------------------------------------------------------
(* Properties                                                              *)

\* the calls that classify a path
InspectOps ==
    {"inspect_path_new", "unix::inspect_path", "windows::inspect_path",
     "inspect"}

\* the two drive-letter backends of Windows
DriveOps == {"windows::inspect_path", "inspect"}

\* mount point mp is path p or an ancestor of it, component by component
AncestorOrEqual(mp, p) ==
    /\ Len(components(mp)) <= Len(components(p))
    /\ SubSeq(components(p), 1, Len(components(mp))) = components(mp)

\* the lines ls are well formed and one of them mounts "/"
MountsRoot(ls) ==
    /\ \E k \in 1..Len(ls) : ls[k] = "1 0 8:1 / / rw - ext4 /dev/sda1 rw"
    /\ \A k \in 1..Len(ls) : ls[k] # "6 1 /bad rw - proc proc rw"

\* C1: the record inspect_path_new resolves a path to is a record of the
\* parsed table whose mount point is the path or a component-wise ancestor
\* of it, and no record of the table that is one too has more components in
\* its mount point; a table of well-formed lines that mounts "/" resolves
\* every absolute path.
C1_DeepestAncestor ==
    call.op = "inspect_path_new" =>
        /\ resolved.some =>
              /\ resolved.val.best = resolved.val.miv[resolved.val.index]
              /\ AncestorOrEqual(resolved.val.best.mount_point, target)
              /\ \A k \in 1..Len(resolved.val.miv) :
                    AncestorOrEqual(resolved.val.miv[k].mount_point, target)
                    => Len(components(resolved.val.miv[k].mount_point))
                       <= Len(components(resolved.val.best.mount_point))
        /\ ( /\ mountinfo.readable
             /\ MountsRoot(lines(mountinfo.text))
             /\ StartsWith(target, "/") ) => resolved.some

\* a path under /mediaX resolved to /mediaX in a table that also mounts /media
C1_Witness ==
    /\ call.op = "inspect_path_new"
    /\ target = "/mediaX/f"
    /\ resolved.some
    /\ resolved.val.best.mount_point = "/mediaX"
    /\ \E k \in 1..Len(resolved.val.miv) :
          resolved.val.miv[k].mount_point = "/media"

\* C2: a record whose major device number is 0 classifies as
\* Virtual(fs_type) whatever its filesystem type and whatever the removable
\* attribute holds; its classification never fails.
C2_MajorZeroVirtual ==
    (call.op = "classify" /\ call.arg.device_number.major = 0) =>
        (ret.ok /\ ret.val.kind = Virtual(call.arg.fs_type))

\* the removable attribute holds the number 1
ReadsOne == removable \in {Present("1"), Present("+1"), Present("01")}

\* the removable attribute holds a text that is not a u8
NotU8 ==
    removable \in {Present("0\n"), Present("256"), Present("x"), Present(""),
                   Present("-1")}

RemoteOf(fs_type) ==
    IF fs_type = "nfs4" THEN RemoteType("NFS") ELSE RemoteType("SMB")

\* C3, as claimed: a record of type nfs4 classifies as (Remote, NFS) and one
\* of type cifs as (Remote, SMB), whatever its device number and whatever the
\* removable attribute holds.
C3_RemoteAlways ==
    (call.op = "classify" /\ call.arg.fs_type \in {"nfs4", "cifs"}) =>
        /\ ret.ok
        /\ ret.val.kind = Remote
        /\ ret.val.remote_kind = Some(RemoteOf(call.arg.fs_type))

\* C3, amended: a record of type nfs4 (cifs) whose major device number is
\* not 0 classifies as (Remote, NFS) ((Remote, SMB)) when the removable
\* attribute is absent or holds a number other than 1, as Removable when it
\* holds 1, and its classification fails with ParseInt when the attribute
\* holds no u8; with major 0 the record is never Remote.
C3_RemoteOnRealDevice ==
    (call.op = "classify" /\ call.arg.fs_type \in {"nfs4", "cifs"}) =>
        IF call.arg.device_number.major = 0
            THEN ~(ret.ok /\ ret.val.kind = Remote)
        ELSE IF NotU8 THEN IsErr(ret, "ParseInt")
        ELSE IF ReadsOne
            THEN /\ ret.ok
                 /\ ret.val.kind = PathType("Removable")
                 /\ ret.val.remote_kind = None
        ELSE /\ ret.ok
             /\ ret.val.kind = Remote
             /\ ret.val.remote_kind = Some(RemoteOf(call.arg.fs_type))

\* a cifs mount on a real device whose removable attribute reads 0
C3_Witness ==
    /\ call.op = "classify"
    /\ call.arg.fs_type = "cifs"
    /\ call.arg.device_number.major = 8
    /\ removable = Present("0")
    /\ ret.ok
    /\ ret.val.kind = Remote
    /\ ret.val.remote_kind = Some(RemoteType("SMB"))

\* the line whose third left field is the mount point, not major:minor
NoDevicePair == "40 28 /dev/mqueue rw - mqueue mqueue rw"

\* lines whose third left field holds a ":" but not two u32
BadDevicePair ==
    {"40 28 0:x / /dev/mqueue rw - mqueue mqueue rw",
     "40 28 0:4294967296 / /dev/mqueue rw - mqueue mqueue rw",
     "40 28 : / /dev/mqueue rw - mqueue mqueue rw"}

\* C4, as claimed: parsing the line whose third left field is no major:minor
\* pair fails with the field-parse kind ParseInt.
C4_FieldParseError ==
    (call.op = "mountinfo_into_vec" /\ call.arg = NoDevicePair) =>
        IsErr(ret, "ParseInt")

\* C4, amended: parsing a line whose third left field holds no ":" fails with
\* the structural kind ParseGen; it fails with ParseInt when the field holds
\* a ":" and a side of it is no u32; no malformed text yields a record.
C4_StructuralError ==
    call.op = "mountinfo_into_vec" =>
        /\ call.arg = NoDevicePair => IsErr(ret, "ParseGen")
        /\ call.arg \in BadDevicePair => IsErr(ret, "ParseInt")
        /\ call.arg \in MalformedTexts => ~ret.ok

C4_Witness ==
    /\ call.op = "mountinfo_into_vec"
    /\ call.arg = NoDevicePair
    /\ IsErr(ret, "ParseGen")

\* the record a well-formed line written from the fields f stands for
RecordOf(f) ==
    MountInfo(f.id[2], f.parent[2], DeviceNumber(f.major[2], f.minor[2]),
              f.root, f.mp, f.fs, f.dev, f.opts)

\* C5, the parser's part: a well-formed line parses to the one record of its
\* first five left fields and first three right fields, further fields
\* ignored.
WellFormedLineParsed ==
    call.op = "mountinfo_into_vec" =>
        \A f \in LineFields :
            call.arg = LineOf(f) => ret = Ok(<<RecordOf(f)>>)

\* C5: a well-formed line parses to the one record of its first five left
\* fields and first three right fields, further fields ignored, and the
\* record of the mqueue line classifies as Virtual("mqueue").
C5_WellFormedLine ==
    /\ WellFormedLineParsed
    /\ ( /\ call.op = "classify"
         /\ call.arg.fs_type = "mqueue"
         /\ call.arg.device_number.major = 0 )
       => (ret.ok /\ ret.val.kind = Virtual("mqueue"))

\* C6: with drive-type code 4 and a universal name that resolves, the remote
\* kind is SMB when the name begins with two backslashes and holds no
\* DavWWWRoot, WebDAV when it begins with two backslashes and holds
\* DavWWWRoot, Unknown when it does not begin with two backslashes.
C6_RemoteSubtype ==
    ( /\ call.op = "windows::inspect_path"
      /\ driveType = 4
      /\ universalName.first = "ERROR_MORE_DATA"
      /\ universalName.second = "NO_ERROR"
      /\ universalName.name.some ) =>
        /\ ret.ok
        /\ ret.val.kind = Remote
        /\ ret.val.remote_kind =
              Some(RemoteType(
                  IF ~StartsWith(universalName.name.val, "\\\\") THEN "Unknown"
                  ELSE IF Contains(universalName.name.val, "DavWWWRoot")
                      THEN "WebDAV"
                  ELSE "SMB"))

\* C7: with drive-type code 1 both drive-letter backends fail with
\* InvalidPath carrying the path asked about, and return no PathInfo; with
\* any other code they do not fail with InvalidPath.
C7_NoRootIsInvalidPath ==
    call.op \in DriveOps =>
        /\ driveType = 1 => (ret = ErrWith("InvalidPath", target) /\ ~info.held)
        /\ driveType # 1 => (ret.ok \/ ret.err # "InvalidPath")

C7_Witness ==
    /\ call.op = "windows::inspect_path"
    /\ driveType = 1
    /\ target = "Q:\\"
    /\ ret = ErrWith("InvalidPath", "Q:\\")

\* two results with the same kind and remote kind, or the same error
SameClass(a, b) ==
    /\ a.ok = b.ok
    /\ IF a.ok
       THEN a.val.kind = b.val.kind /\ a.val.remote_kind = b.val.remote_kind
       ELSE a = b

C9_StatusOnly ==
    [][ /\ (call'.op \in InspectOps /\ ret'.ok)
            => ret'.val.status = PathStatus("Unknown")
        /\ call'.op = "probe"
            => /\ info.held /\ info'.held
               /\ info'.struct = info.struct
               /\ info'.val.path = info.val.path
               /\ info'.val.kind = info.val.kind
               /\ info'.val.remote_kind = info.val.remote_kind ]_vars

\* a remote PathInfo of lib.rs after update_status found it disconnected
C9_Witness ==
    /\ call.op = "probe"
    /\ info.held
    /\ info.struct = "lib"
    /\ info.val.kind = Remote
    /\ info.val.status = PathStatus("Disconnected")

\* DRIVE_REMOVABLE .. DRIVE_RAMDISK
KindOfCode(code) ==
    CASE code = 2 -> PathType("Removable")
      [] code = 3 -> PathType("Fixed")
      [] code = 4 -> Remote
      [] code = 5 -> PathType("CDRom")
      [] code = 6 -> PathType("RamDisk")

\* C10, as claimed: inspect answers drive-type code 0 with kind Unknown and
\* no error, codes 2..6 with Removable, Fixed, Remote, CDRom, RamDisk, and
\* every code outside 0..6 with an error.
C10_CodeZeroUnknown ==
    call.op \in DriveOps =>
        /\ driveType = 0 => (ret.ok /\ ret.val.kind = PathType("Unknown"))
        /\ driveType \in 2..6 => (ret.ok /\ ret.val.kind = KindOfCode(driveType))
        /\ driveType \notin 0..6 => ~ret.ok

\* C10, amended: inspect answers drive-type code 0 with the error
\* PathTypeError, codes 2..6 with Removable, Fixed, Remote, CDRom, RamDisk,
\* and every code above 6 with the error General carrying the code;
\* path_type answers code 0 with Unknown, codes 2..6 alike, and every code
\* above 6 with PathTypeError.
C10_CodeMap ==
    /\ call.op \in DriveOps =>
          /\ driveType = 0 => ret = Err("PathTypeError")
          /\ driveType \in 2..6 =>
                (ret.ok /\ ret.val.kind = KindOfCode(driveType))
          /\ driveType > 6 => ret = ErrWith("General", ToString(driveType))
    /\ call.op = "path_type" =>
          /\ driveType = 0 => ret = Ok(PathType("Unknown"))
          /\ driveType \in 2..6 => ret = Ok(KindOfCode(driveType))
          /\ driveType > 6 => ret = Err("PathTypeError")

C10_Witness ==
    /\ call.op = "inspect"
    /\ driveType = 0
    /\ ret = Err("PathTypeError")

\* the universal name of the path could not be resolved
NameFails == ~get_universal_name(universalName).some

\* C11: on Windows, a path on a drive of type Remote whose universal name
\* cannot be resolved is inspected with success, and the remote kind of the
\* result is present and is RemoteType Unknown
C11_RemoteUnknownOnFailure ==
    (call.op = "windows::inspect_path" /\ driveType = 4 /\ NameFails)
        => /\ ret.ok
           /\ ret.val.kind = Remote
           /\ ret.val.remote_kind = Some(RemoteType("Unknown"))

\* the inspect backends of the platforms
BackendOps == {"inspect_path_new", "unix::inspect_path", "windows::inspect_path"}

\* C12: a PathInfo returned by an inspect backend (Unix mountinfo, Unix
\* statfs, Windows), and the PathInfo the caller holds from it, has a remote
\* kind only if its kind is Remote
C12_RemoteKindOnlyIfRemote ==
    /\ (call.op \in BackendOps /\ ret.ok /\ ret.val.remote_kind.some)
           => ret.val.kind = Remote
    /\ (info.held /\ info.struct = "platform" /\ info.val.remote_kind.some)
           => info.val.kind = Remote

\* inspect_path_new returns a PathInfo of a local disk, without remote kind
C12_Witness ==
    /\ call.op = "inspect_path_new"
    /\ ret.ok
    /\ ret.val.kind = PathType("Fixed")
    /\ ret.val.remote_kind = None
    /\ resolved.some
    /\ resolved.val.best.fs_type = "ext4"

\* the lines of LinePool that are well formed
WellFormedPool == LinePool \ {"6 1 /bad rw - proc proc rw"}

\* the record a well-formed line of LinePool stands for
PoolRecord(line) ==
    CASE line = "1 0 8:1 / / rw - ext4 /dev/sda1 rw" ->
             MountInfo(1, 0, DeviceNumber(8, 1), "/", "/", "ext4", "/dev/sda1", "rw")
      [] line = "2 1 0:5 / /media rw - nfs4 srv:/x rw" ->
             MountInfo(2, 1, DeviceNumber(0, 5), "/", "/media", "nfs4", "srv:/x", "rw")
      [] line = "3 2 8:16 / /media/usb rw shared:7 - vfat /dev/sdb1 rw" ->
             MountInfo(3, 2, DeviceNumber(8, 16), "/", "/media/usb", "vfat", "/dev/sdb1", "rw")
      [] line = "4 1 9:0 / /media/ rw - cifs //s/x rw" ->
             MountInfo(4, 1, DeviceNumber(9, 0), "/", "/media/", "cifs", "//s/x", "rw")
      [] line = "5 1 11:0 / /mediaX rw - iso9660 /dev/sr0 ro" ->
             MountInfo(5, 1, DeviceNumber(11, 0), "/", "/mediaX", "iso9660", "/dev/sr0", "ro")

\* the lines ls are well formed and none of them mounts path p or an
\* ancestor of it
NoneMounts(ls, p) ==
    \A k \in 1..Len(ls) :
        /\ ls[k] \in WellFormedPool
        /\ ~AncestorOrEqual(PoolRecord(ls[k]).mount_point, p)

\* C13: when the mount table parses and no record of it has a mount point
\* that is a component-wise prefix of the path (the empty table included),
\* inspect_path_new fails with an error of a kind that is neither of the two
\* kinds the parser fails with, and returns no PathInfo
C13_NoMatchingMount ==
    (/\ call.op = "inspect_path_new"
     /\ mountinfo.readable
     /\ NoneMounts(lines(mountinfo.text), target))
        => /\ ~ret.ok
           /\ ret.err \notin {"ParseGen", "ParseInt"}
           /\ ~info.held

\* C14: mountinfo_into_vec skips no line. A text one of whose lines is not
\* well formed (a blank line, a line without the " - " separator, at any
\* place) fails to parse and yields no records; a text of well-formed lines
\* yields one record for each line, in the order of the lines
C14_NoLineSkipped ==
    call.op = "mountinfo_into_vec" =>
        \A ls \in ParserSeqs :
            call.arg = ParserTexts[ls] =>
                IF \E k \in 1..Len(ls) : ls[k] \notin WellFormedPool
                THEN ~ret.ok /\ "val" \notin DOMAIN ret
                ELSE /\ ret.ok
                     /\ Len(ret.val) = Len(ls)
                     /\ \A k \in 1..Len(ls) : ret.val[k] = PoolRecord(ls[k])

\* a blank line ahead of a well-formed line fails the parse
C14_Witness ==
    /\ call.op = "mountinfo_into_vec"
    /\ call.arg = "\n1 0 8:1 / / rw - ext4 /dev/sda1 rw\n"
    /\ ~ret.ok

\* the local drive spec of each path of WinPaths: its first two characters
DriveSpec(path) ==
    CASE path = "Q:\\" -> "Q:"
      [] path = "Z:\\partcount.csv" -> "Z:"
      [] path = "\\\\server\\share\\" -> "\\\\"
      [] path = "C" -> "C"

\* inspect finds the path a drive of a known type
InspectSucceeds == driveType \in 2..6

\* inspect fails with InvalidPath: the drive has no root directory
InvalidRoot == driveType = 1

\* the error inspect fails with when it is not InvalidPath
OtherInspectError ==
    IF driveType = 0 THEN Err("PathTypeError")
    ELSE ErrWith("General", ToString(driveType))

\* the result of a mount the system answers with result
MountOutcome(result) ==
    IF result = 0 THEN Ok(<<>>)
    ELSE ErrWith("General", "Win32 error: " \o ToString(result))

\* C15 as stated: try_mount_if_needed attempts a mount exactly when inspect
\* failed with InvalidPath, once, with the first two characters of the path;
\* it returns Ok without a mount when inspect succeeds, the error of inspect
\* without a mount when that is another error, and the result of the mount
\* otherwise
C15_MountExactlyOnInvalidRoot ==
    call.op = "try_mount_if_needed" =>
        /\ Len(mounts) = IF InvalidRoot THEN 1 ELSE 0
        /\ InvalidRoot =>
               /\ \A k \in 1..Len(mounts) : mounts[k][1] = DriveSpec(target)
               /\ ret = MountOutcome(call.arg[2])
        /\ InspectSucceeds => ret = Ok(<<>>)
        /\ (~InvalidRoot /\ ~InspectSucceeds) => ret = OtherInspectError

\* C15, amended: the mount is attempted exactly when inspect failed with
\* InvalidPath and the remote path converts to a string, once, with the
\* first two characters of the path and that string, and its result is
\* returned; when the remote path does not convert, General("Conversion
\* Error") is returned without a mount; when inspect succeeds Ok is returned
\* without a mount; when inspect fails with another error, that error is
\* returned without a mount
C15_MountOnInvalidRootAndText ==
    call.op = "try_mount_if_needed" =>
        /\ (InvalidRoot /\ call.arg[1].unicode) =>
               /\ mounts = <<(<<DriveSpec(target), call.arg[1].text>>)>>
               /\ ret = MountOutcome(call.arg[2])
        /\ (InvalidRoot /\ ~call.arg[1].unicode) =>
               /\ mounts = <<>>
               /\ ret = ErrWith("General", "Conversion Error")
        /\ InspectSucceeds => (mounts = <<>> /\ ret = Ok(<<>>))
        /\ (~InvalidRoot /\ ~InspectSucceeds) =>
               (mounts = <<>> /\ ret = OtherInspectError)

\* the drive has no root, the mount is attempted and fails
C15_Witness ==
    /\ call.op = "try_mount_if_needed"
    /\ InvalidRoot
    /\ Len(mounts) = 1
    /\ ~ret.ok
    /\ ret.text = "Win32 error: 85"

\* the status the claim gives for an outcome of the metadata check
ClaimedStatus(md) ==
    CASE md = "Ok" -> PathStatus("Mounted")
      [] md = "PermissionDenied" -> PathStatus("Mounted")
      [] md \in {"NotFound", "TimedOut", "NetworkDown", "NotConnected"} ->
             PathStatus("Disconnected")
      [] OTHER -> PathStatus("Unknown")

\* update_status has probed the path of a PathInfo of lib.rs
UpdatesStatus ==
    /\ call.op = "probe"
    /\ info.held
    /\ info.struct = "lib"
    /\ info.val.path.some

\* C16 as stated: the check_status of Windows, the check_status of Unix and
\* PathInfo::update_status all map success and permission-denied to Mounted,
\* not-found, timed-out, network-down and not-connected to Disconnected, and
\* any other error to Unknown
C16_OneMapping ==
    /\ call.op = "check_status" => ret = ClaimedStatus(call.arg)
    /\ UpdatesStatus => info.val.status = ClaimedStatus(call.arg)

\* C16, amended: the check_status of Windows maps as stated; the
\* check_status of Unix maps success to Mounted and every error to Unknown;
\* update_status maps as stated but for an error of another kind, which it
\* maps to Other with the text of the error
C16_MappingOfEach ==
    /\ (call.op = "check_status" /\ host = "windows")
           => ret = ClaimedStatus(call.arg)
    /\ (call.op = "check_status" /\ host = "unix")
           => ret = IF call.arg = "Ok" THEN PathStatus("Mounted")
                    ELSE PathStatus("Unknown")
    /\ UpdatesStatus
           => info.val.status =
                  IF call.arg = "InvalidInput" THEN StatusOther("InvalidInput")
                  ELSE ClaimedStatus(call.arg)

\* the check_status of Unix answers Unknown for a path that is not found
C16_Witness ==
    /\ call.op = "check_status"
    /\ host = "unix"
    /\ call.arg = "NotFound"
    /\ ret = PathStatus("Unknown")

\* the path the claim has the mount matched against: the canonical path
\* when canonicalization succeeds, the path asked about when it fails
MatchedPath == IF canonical.some THEN canonical.val ELSE target

\* a record of the well-formed lines ls mounts path p or an ancestor of it
\* deeper than mount point mp
DeeperMount(ls, p, mp) ==
    \E k \in 1..Len(ls) :
        /\ AncestorOrEqual(PoolRecord(ls[k]).mount_point, p)
        /\ Len(components(PoolRecord(ls[k]).mount_point)) > Len(components(mp))

\* C17: on Unix the mount record is matched against the canonical path when
\* canonicalization succeeds and against the path asked about when it
\* fails, which does not fail the inspection; the result records the
\* canonical path as resolvedPath (empty when there is none) and isSymlink,
\* true when the canonical path differs from the path asked about
C17_MatchesCanonical ==
    (/\ call.op = "inspect_path_new"
     /\ mountinfo.readable
     /\ \A k \in 1..Len(lines(mountinfo.text)) :
            lines(mountinfo.text)[k] \in WellFormedPool)
        => /\ resolved.some =>
                  /\ AncestorOrEqual(resolved.val.best.mount_point, MatchedPath)
                  /\ ~DeeperMount(lines(mountinfo.text), MatchedPath,
                                  resolved.val.best.mount_point)
           /\ ~resolved.some =>
                  NoneMounts(lines(mountinfo.text), MatchedPath)
           /\ ret.ok =>
                  /\ {"resolved_path", "is_symlink"} \subseteq DOMAIN ret.val
                  /\ ret.val.resolved_path = canonical
                  /\ ret.val.is_symlink
                         = (canonical.some /\ canonical.val # target)

\* the filesystem types of the remote sub-tables
RemoteNames == NFS \cup SMB \cup SSH \cup CLUSTER \cup PROTOCOL \cup OTHER_FS

\* the filesystem types that begin with "fuse"
FuseNames == {"fuse", "fuseblk", "fuse.foo", "fuse.sshfs", "fuse.ceph",
              "fuse.glusterfs", "fuse.davfs"}

\* the category of the first rule of the claim that record rec matches
FirstRule(rec) ==
    IF rec.device_number.major = 0 THEN Virtual(rec.fs_type)
    ELSE IF ReadsOne THEN PathType("Removable")
    ELSE IF rec.fs_type \in CDROM_FS_TYPES THEN PathType("CDRom")
    ELSE IF rec.fs_type \in RemoteNames THEN Remote
    ELSE IF rec.fs_type \in FuseNames THEN PathType("Unknown")
    ELSE IF rec.fs_type \in LOCAL_BLOCK_FS_TYPES THEN PathType("Fixed")
    ELSE PathType("Unknown")

\* C18 as stated: for every record and every outcome of the probe of the
\* removable attribute, get_kind returns the category of the first rule that
\* matches: major 0, removable, optical, remote, "fuse" prefix, local block,
\* and Unknown otherwise
C18_FirstRuleEveryOutcome ==
    call.op = "classify" => (ret.ok /\ ret.val.kind = FirstRule(call.arg))

\* C18, amended: when the removable attribute is absent or holds a u8,
\* get_kind returns the category of the first rule that matches, so that a
\* removable device overrides an optical, remote or local type, "fuse.sshfs"
\* is Remote and "fuse.foo" is Unknown; when the attribute holds a text that
\* is no u8, get_kind fails with ParseInt whatever the record
C18_FirstRule ==
    call.op = "classify" =>
        IF NotU8 THEN IsErr(ret, "ParseInt")
        ELSE /\ ret.ok
             /\ ret.val.kind = FirstRule(call.arg)
             /\ (call.arg.device_number.major # 0 /\ ReadsOne)
                    => ret.val.kind = PathType("Removable")
             /\ (call.arg.device_number.major # 0 /\ ~ReadsOne)
                    => /\ call.arg.fs_type = "fuse.sshfs"
                              => ret.val.kind = Remote
                       /\ call.arg.fs_type = "fuse.foo"
                              => ret.val.kind = PathType("Unknown")

\* an sshfs mount through FUSE on a real device, the attribute reading 0
C18_Witness ==
    /\ call.op = "classify"
    /\ call.arg.fs_type = "fuse.sshfs"
    /\ call.arg.device_number.major = 8
    /\ removable = Present("0")
    /\ ret.ok
    /\ ret.val.kind = Remote

\* the candidates of the table miv for path p whose mount point has as many
\* components as that of the record at index k
Ties(miv, p, k) ==
    {j \in 1..Len(miv) :
        /\ AncestorOrEqual(miv[j].mount_point, p)
        /\ Len(components(miv[j].mount_point))
               = Len(components(miv[k].mount_point))}

\* C19: of the candidate records whose mount points share the greatest
\* count of components, inspect_path_new resolves the path to the one that
\* comes last in the table
C19_LastOfTies ==
    (call.op = "inspect_path_new" /\ resolved.some) =>
        \A j \in Ties(resolved.val.miv, target, resolved.val.index) :
            j <= resolved.val.index

\* "/media" and "/media/" are mounted one over the other, and the path is
\* resolved to the second of them
C19_Witness ==
    /\ call.op = "inspect_path_new"
    /\ target = "/media"
    /\ resolved.some
    /\ Len(resolved.val.miv) = 2
    /\ resolved.val.index = 2
    /\ Ties(resolved.val.miv, target, 2) = {1, 2}

=============================================================================
